---------------------------- MODULE Spec2Model ----------------------------
(***************************************************************************)
(* Model of the PlatformIO build hooks Scripts/Pre-Compile.py and          *)
(* Scripts/Post-Compile.py.                                                *)
(*                                                                         *)
(* Python values are records tagged by their type:                         *)
(*   S(s)      a str                                                       *)
(*   L(vs)     a list, vs the sequence of its elements                     *)
(*   D(ks, vs) a dict in insertion order, ks its keys (str, distinct)      *)
(*             and vs the values, vs[i] the value stored under ks[i]       *)
(*   I(n)      an int                                                      *)
(*   None      the value of flags.get("CPPDEFINES") when the key is absent *)
(***************************************************************************)
EXTENDS Integers, Sequences, FiniteSets, TLC

VARIABLES
    haystack,   \* walkItems: first argument
    needle,     \* walkItems: second argument
    result,     \* walkItems: the value returned to the caller
    pc,         \* where the build is
    env,        \* the SCons construction environment the scripts read
    files,      \* the files on disk: path -> bytes
    dirs,       \* the directories on disk
    stdout,     \* the lines printed by the script or hook that ran last
    MyName,     \* Post-Compile.py globals, None while unbound
    MyFlash,
    MyVersion,
    MyBuild,
    UNIXtime,
    FinalBIN,
    exc,        \* the exception that ended the build, "" if none
    runs        \* runs of Copy_Binary since the artifact was last built

S(s) == [t |-> "S", s |-> s]
L(vs) == [t |-> "L", vs |-> vs]
D(ks, vs) == [t |-> "D", ks |-> ks, vs |-> vs]
I(n) == [t |-> "I", n |-> n]
None == [t |-> "N"]

\* the outcome of an expression that raises the exception e
Raise(e) == [t |-> "E", e |-> e]

\* the literal "" that walkItems returns when it finds nothing
Empty == S("")

isdict(v) == v.t = "D"
islist(v) == v.t = "L"

----------------------------------------------------------------------------
(* walkItems, Post-Compile.py lines 9-52 (Pre-Compile.py lines 2-45 is the *)
(* same text).  The two for loops are unrolled into recursions on the      *)
(* index i of the entry the loop is at, carrying the local nxt.            *)

\* `result != ""` (lines 19, 24, 39, 44); the variant takes every result of
\* a nested search for a find
FoundMutAlways(res) == TRUE
Found(res) == res # Empty

\* `key == needle` on a dict key (line 27); the variant never matches
DictKeyMatchesMutNever(key, ndl) == FALSE
DictKeyMatches(key, ndl) == key = ndl

\* `key == needle` on a list element that is neither dict nor list (line 47);
\* the variant matches every such element
ListKeyMatchesMutAny(key, ndl) == TRUE
ListKeyMatches(key, ndl) == key = S(ndl)

\* `return key` in the dict loop when nxt is set (line 15); the variant
\* returns "" in its place
DictNextMutEmpty(key) == Empty
DictNext(key) == S(key)

\* `return key` in the list loop when nxt is set (line 35)
ListNext(key) == key

RECURSIVE walkItems(_, _)
RECURSIVE walkDict(_, _, _, _)
RECURSIVE walkList(_, _, _, _)

\* for key, items in haystack.items(): ...   return ""     (lines 13-30)
walkDict(hay, ndl, i, nxt) ==
    IF i > Len(hay.ks) THEN Empty
    ELSE LET key == hay.ks[i]
             items == hay.vs[i]
         IN  IF nxt THEN DictNext(key)
             ELSE IF isdict(items) THEN
                 LET res == walkItems(items, ndl)
                 IN  IF Found(res) THEN res ELSE walkDict(hay, ndl, i + 1, nxt)
             ELSE IF islist(items) THEN
                 LET res == walkItems(items, ndl)
                 IN  IF Found(res) THEN res ELSE walkDict(hay, ndl, i + 1, nxt)
             ELSE IF DictKeyMatches(key, ndl) THEN walkDict(hay, ndl, i + 1, TRUE)
             ELSE walkDict(hay, ndl, i + 1, nxt)

\* for key in haystack: ...   return ""                     (lines 33-50)
walkList(hay, ndl, i, nxt) ==
    IF i > Len(hay.vs) THEN Empty
    ELSE LET key == hay.vs[i]
         IN  IF nxt THEN ListNext(key)
             ELSE IF isdict(key) THEN
                 LET res == walkItems(key, ndl)
                 IN  IF Found(res) THEN res ELSE walkList(hay, ndl, i + 1, nxt)
             ELSE IF islist(key) THEN
                 LET res == walkItems(key, ndl)
                 IN  IF Found(res) THEN res ELSE walkList(hay, ndl, i + 1, nxt)
             ELSE IF ListKeyMatches(key, ndl) THEN walkList(hay, ndl, i + 1, TRUE)
             ELSE walkList(hay, ndl, i + 1, nxt)

walkItems(hay, ndl) ==
    IF isdict(hay) THEN walkDict(hay, ndl, 1, FALSE)
    ELSE IF islist(hay) THEN walkList(hay, ndl, 1, FALSE)
    ELSE Empty

----------------------------------------------------------------------------
(* The inputs of walkItems: None and every value of at most MaxSize nodes   *)
(* (a str is one node, a list or dict one node plus the nodes of its       *)
(* elements or values) whose strings come from Strings and whose dict keys  *)
(* come from Keys; the needles of Needles.                                 *)

MaxSize == 6

Strings == {"", "N", "X"}
Keys == {"N", "X"}
Needles == {"N"}

\* the sequences of k distinct dict keys
InjSeqs(k) == {ks \in [1..k -> Keys] : \A i, j \in 1..k : ks[i] = ks[j] => i = j}

\* the list and the dicts whose elements or values are the sequence f
ContainersOf(f) == {L(f)} \cup {D(ks, f) : ks \in InjSeqs(Len(f))}

RECURSIVE Forests(_, _)
RECURSIVE ValuesOfSize(_)

\* the sequences of k values that have n nodes in all
Forests(k, n) ==
    IF k = 0 THEN (IF n = 0 THEN {<<>>} ELSE {})
    ELSE IF n < k THEN {}
    ELSE UNION {{<<v>> \o f : v \in ValuesOfSize(m), f \in Forests(k - 1, n - m)}
                   : m \in 1..(n - k + 1)}

\* the values of n nodes
ValuesOfSize(n) ==
    (IF n = 1 THEN {S(s) : s \in Strings} ELSE {})
    \cup UNION {UNION {ContainersOf(f) : f \in Forests(k, n - 1)} : k \in 0..(n - 1)}

\* hay is a list or dict of n nodes: k elements, the first of them a value of
\* m nodes (a str, or a container of the k2 elements f2)
IsContainerOfSize(hay, n) ==
    \E k \in 1..(n - 1) : \E m \in 1..(n - k) :
        \E rest \in Forests(k - 1, n - 1 - m) :
            \E k2 \in 0..(m - 1) : \E f2 \in Forests(k2, m - 1) :
                \E first \in (IF m = 1 THEN {S(s) : s \in Strings} ELSE {})
                                 \cup ContainersOf(f2) :
                    hay \in ContainersOf(<<first>> \o rest)

\* the build hooks are not running
NoBuild ==
    /\ env = [flags |-> D(<<>>, <<>>), PIOENV |-> "", BOARD_MCU |-> "", UNIX_TIME |-> 0]
    /\ files = <<>>
    /\ dirs = {}
    /\ stdout = <<>>
    /\ MyName = None /\ MyFlash = None /\ MyVersion = None
    /\ MyBuild = None /\ UNIXtime = None /\ FinalBIN = None
    /\ exc = ""
    /\ runs = 0

InitWalk ==
    /\ \/ haystack \in {None} \cup ValuesOfSize(1)
       \/ \E n \in 2..MaxSize : IsContainerOfSize(haystack, n)
    /\ needle \in Needles
    /\ result = None
    /\ pc = "call"
    /\ NoBuild

hookVars == <<env, files, dirs, stdout, MyName, MyFlash, MyVersion, MyBuild,
              UNIXtime, FinalBIN, exc, runs>>
walkVars == <<haystack, needle, result>>
vars == <<walkVars, pc, hookVars>>

\* a caller evaluates walkItems(haystack, needle)
Walk ==
    /\ pc = "call"
    /\ result' = walkItems(haystack, needle)
    /\ pc' = "return"
    /\ UNCHANGED <<haystack, needle, hookVars>>

NextWalk == Walk

SpecWalk == InitWalk /\ [][NextWalk]_vars

----------------------------------------------------------------------------
(* Python expressions the scripts use.                                     *)

\* a + b where a is a str: str concatenation, TypeError when b is no str
add(a, b) ==
    IF a.t = "E" THEN a
    ELSE IF b.t = "E" THEN b
    ELSE IF a.t = "S" /\ b.t = "S" THEN S(a.s \o b.s)
    ELSE Raise("TypeError")

RECURSIVE repr(_)
RECURSIVE reprItems(_, _)

\* repr(v), as the text Python shows for the value
repr(v) ==
    IF v.t = "S" THEN "'" \o v.s \o "'"
    ELSE IF v.t = "I" THEN ToString(v.n)
    ELSE IF v.t = "L" THEN "[" \o reprItems(v, 1) \o "]"
    ELSE IF v.t = "D" THEN "{" \o reprItems(v, 1) \o "}"
    ELSE "None"

\* the items of a list or dict from the i-th on, joined by ", "
reprItems(v, i) ==
    IF i > Len(v.vs) THEN ""
    ELSE (IF v.t = "D" THEN "'" \o v.ks[i] \o "': " ELSE "")
         \o repr(v.vs[i])
         \o (IF i < Len(v.vs) THEN ", " ELSE "")
         \o reprItems(v, i + 1)

\* str(v)
str(v) == IF v.t = "S" THEN v ELSE S(repr(v))

\* the line print(a, b) writes
print2(a, b) == str(a).s \o " " \o str(b).s

\* d.get(key): the value under key, None when the dict has no such key
get(d, key) ==
    IF \E i \in 1..Len(d.ks) : d.ks[i] = key
    THEN d.vs[CHOOSE i \in 1..Len(d.ks) : d.ks[i] = key]
    ELSE None

----------------------------------------------------------------------------
(* The builds the hooks are run in.  CPPDEFINES is what SCons' ParseFlags   *)
(* makes of the -D flags: a list with a str for -DNAME and a two-element   *)
(* list for -DNAME=VALUE.                                                  *)

MaxDefines == 3
MaxRuns == 3

Pair(name, value) == L(<<S(name), S(value)>>)

Defines ==
    { Pair("DeviceName", "Widget"), Pair("FlashSize", "4"),
      Pair("FIRMWAREVERSION", "1.2.3"), S("FlashSize"), S("4") }

\* what ParseFlags returns: with CPPDEFINES, or without the key
Flags ==
    {D(<<>>, <<>>)}
    \cup {D(<<"CPPDEFINES">>, <<L(ds)>>)
             : ds \in UNION {[1..n -> Defines] : n \in 0..MaxDefines}}

UnixTimes == {0, 1700000000}

\* the bytes the compiler may write to the artifact
Artifacts == {"ELF", "BINARY"}

\* what a file left at the destination by an earlier build may hold
Stale == {"", "stale"}

----------------------------------------------------------------------------
(* Pre-Compile.py, lines 48-74: the whole script, run before compiling.    *)

PreCompile ==
    /\ pc = "pre"
    /\ LET my_flags == env.flags
           my_cppdefines == get(my_flags, "CPPDEFINES")
       IN  stdout' =
               << ">---------- PRE Compile Script BEGIN ----------<",
                  "BUILD FLAGS: ",
                  str(my_flags).s,
                  "=========================================================================================================",
                  print2(S("PIOENV:\t\t"), S(env.PIOENV)),
                  print2(S("BOARD MCU:\t"), S(env.BOARD_MCU)),
                  print2(S("FLASH SIZE:\t"), walkItems(my_cppdefines, "FlashSize")),
                  print2(S("UNIX TIME:\t"), I(env.UNIX_TIME)),
                  ">---------- PRE Compile Script END ----------<" >>
    /\ pc' = "post"
    /\ UNCHANGED <<walkVars, env, files, dirs, MyName, MyFlash, MyVersion, MyBuild,
                   UNIXtime, FinalBIN, exc, runs>>

----------------------------------------------------------------------------
(* Post-Compile.py.                                                        *)

\* the directory of FinalBIN: the "Binaries/" that line 72 starts the path with
DestDir == "Binaries"

\* line 72: "Binaries/" + MyName + " (" + MyBuild + " _ " + MyVersion + ").bin"
FinalBINOf(name, build, version) ==
    add(add(add(add(add(add(S(DestDir \o "/"), name), S(" (")), build), S(" _ ")),
        version), S(").bin"))

\* line 87: "[" + MyName + "|" + str(UNIXtime) + "|" + MyVersion + "|" + MyFlash + "MB]"
FingerPrintOf(name, unixtime, version, flash) ==
    add(add(add(add(add(add(add(add(S("["), name), S("|")), str(unixtime)), S("|")),
        version), S("|")), flash), S("MB]"))

\* "$BUILD_DIR/${PROGNAME}.bin" (line 99), the artifact handed over as target[0]
target == ".pio/build/" \o env.PIOENV \o "/firmware.bin"

\* lines 55-72 and 99: the script is loaded; it binds its globals and registers
\* Copy_Binary, unless line 72 raises
PostCompile ==
    /\ pc = "post"
    /\ LET my_cppdefines == get(env.flags, "CPPDEFINES")
           name == walkItems(my_cppdefines, "DeviceName")
           flash == walkItems(my_cppdefines, "FlashSize")
           version == walkItems(my_cppdefines, "FIRMWAREVERSION")
           build == S(env.PIOENV)
           path == FinalBINOf(name, build, version)
       IN  /\ MyName' = name
           /\ MyFlash' = flash
           /\ MyVersion' = version
           /\ MyBuild' = build
           /\ UNIXtime' = I(env.UNIX_TIME)
           /\ IF path.t = "E"
              THEN /\ FinalBIN' = None
                   /\ exc' = path.e
                   /\ pc' = "fault"
              ELSE /\ FinalBIN' = path
                   /\ exc' = ""
                   /\ pc' = "loaded"
    /\ stdout' = <<>>
    /\ UNCHANGED <<walkVars, env, files, dirs, runs>>

\* shutil.copyfile(src, dst) (line 80): the exception it raises ("" if none)
\* and the files after the call; dst is created or overwritten, never its
\* directory.  The variant leaves a dst that exists as it is.
copyfileMutKeepExisting(src, dst) ==
    IF src \notin DOMAIN files \/ DestDir \notin dirs
    THEN [exc |-> "FileNotFoundError", files |-> files]
    ELSE IF dst \in DOMAIN files THEN [exc |-> "", files |-> files]
    ELSE [exc |-> "", files |-> (dst :> files[src]) @@ files]
copyfile(src, dst) ==
    IF src \notin DOMAIN files \/ DestDir \notin dirs
    THEN [exc |-> "FileNotFoundError", files |-> files]
    ELSE [exc |-> "", files |-> (dst :> files[src]) @@ files]

\* open(path, 'ab'); write(data); close() (lines 90-92) on the files fs; the
\* variant opens with 'wb'
appendMutTruncate(fs, path, data) == (path :> data) @@ fs
append(fs, path, data) ==
    IF path \in DOMAIN fs THEN [fs EXCEPT ![path] = @ \o data]
    ELSE (path :> data) @@ fs

PostBanner ==
    << "\n>---------- POST Compile BEGIN ----------<",
       print2(S("Copying binary to distribution directory:\n"), FinalBIN) >>

\* Copy_Binary(target=[target]), lines 74-97: one run of the post-build hook
Copy_Binary ==
    /\ pc \in {"built", "done"}
    /\ runs < MaxRuns
    /\ runs' = runs + 1
    /\ LET copied == copyfile(target, FinalBIN.s)
           FingerPrint == FingerPrintOf(MyName, UNIXtime, MyVersion, MyFlash)
       IN  IF copied.exc # ""
           THEN /\ files' = files
                /\ exc' = copied.exc
                /\ pc' = "fault"
                /\ stdout' = PostBanner
           ELSE IF FingerPrint.t = "E"
           THEN /\ files' = copied.files
                /\ exc' = FingerPrint.e
                /\ pc' = "fault"
                /\ stdout' = PostBanner
           ELSE /\ files' = append(copied.files, FinalBIN.s, FingerPrint.s)
                /\ exc' = ""
                /\ pc' = "done"
                /\ stdout' = PostBanner \o
                      << print2(S("Fingerprinting:\n"), S("\n" \o FingerPrint.s \o "\n")),
                         ">---------- POST Compile Script END ----------<\n" >>
    /\ UNCHANGED <<walkVars, env, dirs, MyName, MyFlash, MyVersion, MyBuild,
                   UNIXtime, FinalBIN>>

\* the build system compiles: it writes the artifact, after which it calls the
\* post action
Compile ==
    /\ pc \in {"loaded", "done"}
    /\ \E bytes \in Artifacts : files' = (target :> bytes) @@ files
    /\ pc' = "built"
    /\ runs' = 0
    /\ UNCHANGED <<walkVars, env, dirs, stdout, MyName, MyFlash, MyVersion, MyBuild,
                   UNIXtime, FinalBIN, exc>>

\* the path Post-Compile.py will copy to in the environment e, None when
\* line 72 raises
DestOf(e) ==
    LET my_cppdefines == get(e.flags, "CPPDEFINES")
        path == FinalBINOf(walkItems(my_cppdefines, "DeviceName"), S(e.PIOENV),
                           walkItems(my_cppdefines, "FIRMWAREVERSION"))
    IN  IF path.t = "E" THEN None ELSE path

\* a build starts: nothing is loaded; the disk may hold Binaries/ and a file
\* at the destination from an earlier build
Init ==
    /\ haystack = None /\ needle = "" /\ result = None
    /\ pc = "pre"
    /\ \E flags \in Flags, time \in UnixTimes :
          env = [flags |-> flags, PIOENV |-> "env_a", BOARD_MCU |-> "esp32",
                 UNIX_TIME |-> time]
    /\ dirs \in SUBSET {DestDir}
    /\ \/ files = <<>>
       \/ /\ DestOf(env) # None
          /\ DestDir \in dirs
          /\ \E bytes \in Stale : files = (DestOf(env).s :> bytes)
    /\ stdout = <<>>
    /\ MyName = None /\ MyFlash = None /\ MyVersion = None
    /\ MyBuild = None /\ UNIXtime = None /\ FinalBIN = None
    /\ exc = ""
    /\ runs = 0

Next == PreCompile \/ PostCompile \/ Compile \/ Copy_Binary

Spec == Init /\ [][Next]_vars

----------------------------------------------------------------------------
(* Vocabulary of the claims about walkItems.  An entry of the tree is named *)
(* by its position: the indices that lead to it from the root, the last    *)
(* one its index in its own container.                                     *)

RECURSIVE Positions(_)
Positions(v) ==
    IF isdict(v) \/ islist(v)
    THEN UNION {{<<i>>} \cup {<<i>> \o q : q \in Positions(v.vs[i])} : i \in 1..Len(v.vs)}
    ELSE {}

RECURSIVE At(_, _)
At(v, p) == IF p = <<>> THEN v ELSE At(v.vs[Head(p)], Tail(p))

ContainerOf(hay, p) == At(hay, SubSeq(p, 1, Len(p) - 1))
Index(p) == p[Len(p)]

\* the entry at p is the needle: an element of a list, or a key of a dict
IsOcc(hay, ndl, p) ==
    LET c == ContainerOf(hay, p)
    IN  IF islist(c) THEN c.vs[Index(p)] = S(ndl) ELSE c.ks[Index(p)] = ndl

\* ... and it is a str element, or a key whose value is a str
IsPlainOcc(hay, ndl, p) ==
    /\ IsOcc(hay, ndl, p)
    /\ At(hay, p).t = "S"

HasNext(hay, p) == Index(p) < Len(ContainerOf(hay, p).vs)

\* the entry that follows p in its container: the next element, or the next key
NextOf(hay, p) ==
    LET c == ContainerOf(hay, p)
    IN  IF islist(c) THEN c.vs[Index(p) + 1] ELSE S(c.ks[Index(p) + 1])

\* p is met before q in depth-first order
Before(p, q) ==
    \/ Len(p) < Len(q) /\ SubSeq(q, 1, Len(p)) = p
    \/ \E j \in 1..Len(p) :
          /\ j <= Len(q)
          /\ \A l \in 1..(j - 1) : p[l] = q[l]
          /\ p[j] < q[j]

OccsOf(hay, ndl) == {p \in Positions(hay) : IsOcc(hay, ndl, p)}
Occs == OccsOf(haystack, needle)
PlainOccs == {p \in Positions(haystack) : IsPlainOcc(haystack, needle, p)}
IsFirstOf(p, ps) == p \in ps /\ \A q \in ps : q = p \/ Before(p, q)

\* C1 as claimed: when the needle occurs once in the tree (as an element or as
\* a key, whatever the value under the key) and that occurrence is followed
\* in its container by V, walkItems returns V.
C1_NextOfOnlyOccurrence ==
    pc = "return" =>
        \A p \in Occs :
            Occs = {p} /\ HasNext(haystack, p) => result = NextOf(haystack, p)

\* C1 amended: when the needle occurs exactly once among the entries that are
\* str elements of lists or dict keys with a str value, and that occurrence
\* is followed in its container by V, walkItems returns V (also when V is "").
C1_NextOfOnlyPlainOccurrence ==
    pc = "return" =>
        \A p \in PlainOccs :
            PlainOccs = {p} /\ HasNext(haystack, p) => result = NextOf(haystack, p)

\* C1 witness: the only plain occurrence lies in a nested container, is
\* followed there by something, and a dict key with a container value also
\* equals the needle.
C1_Witness ==
    /\ pc = "return"
    /\ \E p \in PlainOccs :
          /\ PlainOccs = {p}
          /\ Len(p) >= 2
          /\ HasNext(haystack, p)
          /\ Occs # PlainOccs
          /\ result = NextOf(haystack, p)
          /\ result # Empty

\* C2: a needle that is no element of any list and no key of any dict of the
\* tree (and any needle when the root is no container) gives "".
C2_AbsentNeedleGivesEmpty ==
    pc = "return" /\ Occs = {} => result = Empty

\* C2 witness: the needle is no element and no key, the tree is nested and
\* holds the needle as a dict value, and "" has been returned.
C2_Witness ==
    /\ pc = "return"
    /\ Occs = {}
    /\ \E p \in Positions(haystack) : Len(p) >= 2 /\ At(haystack, p) = S(needle)
    /\ result = Empty

\* C3 as claimed: with more than one occurrence, walkItems returns what
\* follows the first one in depth-first order, also when that is "".
C3_NextOfFirstOccurrence ==
    pc = "return" /\ Cardinality(PlainOccs) >= 2 =>
        \A p \in PlainOccs :
            IsFirstOf(p, PlainOccs) /\ HasNext(haystack, p)
            => result = NextOf(haystack, p)

\* C3 amended: with more than one plain occurrence, when the first of them in
\* depth-first order is followed in its container by a value other than "",
\* walkItems returns that value.
C3_NextOfFirstPlainOccurrence ==
    pc = "return" /\ Cardinality(PlainOccs) >= 2 =>
        \A p \in PlainOccs :
            /\ IsFirstOf(p, PlainOccs)
            /\ HasNext(haystack, p)
            /\ NextOf(haystack, p) # Empty
            => result = NextOf(haystack, p)

\* C3 witness: the first plain occurrence is nested, a later one is shallower
\* and followed by something else, and the successor of the first is returned.
C3_Witness ==
    /\ pc = "return"
    /\ \E p, q \in PlainOccs :
          /\ IsFirstOf(p, PlainOccs)
          /\ Len(q) < Len(p)
          /\ HasNext(haystack, p) /\ HasNext(haystack, q)
          /\ NextOf(haystack, q) # NextOf(haystack, p)
          /\ result = NextOf(haystack, p)

\* C4 as claimed: the value returned is a str, never a list or a dict.
C4_ResultIsScalar ==
    pc = "return" => result.t = "S"

\* C5 as claimed: when the first occurrence is the last entry of its
\* container, walkItems returns "".
C5_LastEntryGivesEmpty ==
    pc = "return" =>
        \A p \in PlainOccs :
            IsFirstOf(p, PlainOccs) /\ ~HasNext(haystack, p) => result = Empty

\* C5 amended: when the first plain occurrence is the last entry of its
\* container, walkItems of that container is "", and the search goes on in
\* the enclosing containers: the result is "" when there is no other plain
\* occurrence, and when the next plain occurrence in depth-first order is
\* followed in its container by a value other than "", the result is that value.
C5_LastEntrySearchGoesOn ==
    pc = "return" =>
        \A p \in PlainOccs :
            IsFirstOf(p, PlainOccs) /\ ~HasNext(haystack, p) =>
                /\ walkItems(ContainerOf(haystack, p), needle) = Empty
                /\ PlainOccs = {p} => result = Empty
                /\ \A q \in PlainOccs \ {p} :
                      /\ IsFirstOf(q, PlainOccs \ {p})
                      /\ HasNext(haystack, q)
                      /\ NextOf(haystack, q) # Empty
                      => result = NextOf(haystack, q)

\* C5 witness: the first plain occurrence ends a nested container, and what
\* follows a later occurrence has been returned.
C5_Witness ==
    /\ pc = "return"
    /\ \E p, q \in PlainOccs :
          /\ IsFirstOf(p, PlainOccs) /\ ~HasNext(haystack, p)
          /\ Len(p) >= 2
          /\ Before(p, q) /\ HasNext(haystack, q)
          /\ result = NextOf(haystack, q)
          /\ result # Empty

----------------------------------------------------------------------------
(* Vocabulary of the claims about the hooks.                               *)

cppdefines == get(env.flags, "CPPDEFINES")

\* the define is looked up in vain: it is nowhere in CPPDEFINES
Absent(name) == OccsOf(cppdefines, name) = {}

\* the fingerprint of the build, from its configuration
Fingerprint ==
    "[" \o walkItems(cppdefines, "DeviceName").s \o "|" \o ToString(env.UNIX_TIME)
        \o "|" \o walkItems(cppdefines, "FIRMWAREVERSION").s
        \o "|" \o walkItems(cppdefines, "FlashSize").s \o "MB]"

\* the three lookups of Post-Compile.py all give a str
LookupsAreStr ==
    \A name \in {"DeviceName", "FlashSize", "FIRMWAREVERSION"} :
        walkItems(cppdefines, name).t = "S"

\* this step is a run of Copy_Binary
IsRun == pc \in {"built", "done"} /\ runs' = runs + 1

\* C6: a run of the hook that succeeds leaves at the destination the bytes of
\* the artifact followed by the fingerprint and nothing else, whatever was
\* there before; it changes no other file, so the artifact is as it was.
C6_CopyPlusFingerprint ==
    [][IsRun /\ pc' = "done" =>
          /\ files'[FinalBIN.s] = files[target] \o Fingerprint
          /\ Len(files'[FinalBIN.s]) = Len(files[target]) + Len(Fingerprint)
          /\ DOMAIN files' = DOMAIN files \cup {FinalBIN.s}
          /\ \A f \in DOMAIN files : f # FinalBIN.s => files'[f] = files[f]]_vars

\* C6 witness: the first run after a build has succeeded, with every define
\* found.
C6_Witness ==
    /\ pc = "done" /\ runs = 1
    /\ ~Absent("DeviceName") /\ ~Absent("FlashSize") /\ ~Absent("FIRMWAREVERSION")
    /\ files[FinalBIN.s] = files[target] \o "[Widget|1700000000|1.2.3|4MB]"

\* C7 as claimed: a run of the hook leaves the destination directory in
\* place, creating it when it was missing, and so does not fail for want of
\* it.
C7_DirectoryEnsured ==
    [][IsRun => DestDir \in dirs' /\ exc' # "FileNotFoundError"]_vars

\* C8 as claimed: the destination is
\* binaries/<version>/<name>_<build>_<version>.bin.
C8_PathLayout ==
    pc \in {"loaded", "built", "done"} =>
        FinalBIN = S("binaries/" \o MyVersion.s \o "/" \o MyName.s \o "_" \o MyBuild.s
                        \o "_" \o MyVersion.s \o ".bin")

\* C9: a run that follows a successful run, the artifact not rebuilt in
\* between, succeeds and leaves every file and the directories exactly as the
\* earlier run left them: one fingerprint, not two.
C9_RerunChangesNothing ==
    [][IsRun /\ pc = "done" =>
          /\ pc' = "done"
          /\ files' = files
          /\ dirs' = dirs
          /\ files'[FinalBIN.s] = files'[target] \o Fingerprint]_vars

\* C9 witness: the hook has run three times on the same artifact.
C9_Witness ==
    /\ pc = "done" /\ runs >= 3
    /\ files[FinalBIN.s] = files[target] \o Fingerprint
    /\ Fingerprint = "[Widget|0|1.2.3|4MB]"

\* C10 as claimed: with a looked-up define absent and the destination
\* directory in place, no script faults: the lookup gives "", the report of
\* Pre-Compile.py shows the field empty, and a run of Copy_Binary ends with
\* the copy made and fingerprinted.
C10_AbsentDefineNoFault ==
    \A name \in {"DeviceName", "DeviceType", "FlashSize", "FIRMWAREVERSION"} :
        Absent(name) /\ DestDir \in dirs =>
            /\ walkItems(cppdefines, name) = Empty
            /\ pc # "fault"
            /\ pc = "post" /\ name = "FlashSize" => stdout[7] = "FLASH SIZE:\t "
            /\ pc = "done" => files[FinalBIN.s] = files[target] \o Fingerprint

=============================================================================
